---- MODULE Spec2Model ----
(***************************************************************************)
(* Model of the EDR position-query pipeline of xpublish_edr/plugin.py:    *)
(* cache_key_from_request, position_formats and the get_position route    *)
(* handler, run by several in-flight requests on one asyncio event loop.  *)
(***************************************************************************)
EXTENDS Integers, Sequences, FiniteSets, TLC

\* Number of get_position requests served in one behaviour.
NumTasks == 2
\* Largest reading of the monotonic clock (time.perf_counter) that is modelled.
MaxClock == 2

Tasks == 1..NumTasks

(***************************************************************************)
(* Strings.  A query-parameter value is a sequence of tokens; the tokens   *)
(* "/" and "," are the separator characters, every other token is a run   *)
(* of ordinary characters.                                                 *)
(***************************************************************************)

\* str.split(sep): the pieces between the separators, empty pieces kept.
RECURSIVE SplitFrom(_, _, _, _)
SplitFrom(s, sep, i, cur) ==
    IF i > Len(s) THEN <<cur>>
    ELSE IF s[i] = sep THEN <<cur>> \o SplitFrom(s, sep, i + 1, <<>>)
    ELSE SplitFrom(s, sep, i + 1, Append(cur, s[i]))

split(s, sep) == SplitFrom(s, sep, 1, <<>>)

\* The coordinate labels the requests of the model can name, as numbers.
\* Levels are in tenths, so that 29 stands for 2.9 and 30 for 3.
NumOf ==
    [tok \in {"0", "1", "2", "3", "4", "7", "10", "20", "30", "31", "40"} |->
        CASE tok = "0" -> 0 [] tok = "1" -> 1 [] tok = "2" -> 2 [] tok = "3" -> 3
          [] tok = "4" -> 4 [] tok = "7" -> 7 [] tok = "10" -> 10
          [] tok = "20" -> 20 [] tok = "30" -> 30 [] tok = "31" -> 31
          [] tok = "40" -> 40]

\* Whether a label (one piece of a split value) denotes a coordinate value.
Parseable(label) == Len(label) = 1 /\ label[1] \in DOMAIN NumOf

ParseLabel(label) == NumOf[label[1]]

(***************************************************************************)
(* Datasets.  A dataset is its coordinate axes (axis name -> coordinate    *)
(* values still selected) and its data variables.  The CF axis roles X,    *)
(* Y, Z, T and the auxiliary dimensions level and depth are the axes.      *)
(***************************************************************************)

GridA ==
    [coords |-> [a \in {"X", "Y", "Z", "T", "level", "depth"} |->
                    CASE a = "X" -> {0, 10}
                      [] a = "Y" -> {0, 10}
                      [] a = "Z" -> {0, 5}
                      [] a = "T" -> {1, 2, 3}
                      [] a = "level" -> {20, 30, 40}
                      [] a = "depth" -> {10, 15, 20}],
     vars |-> {"temp", "salinity"}]

\* A dataset without CF X/Y axes.
GridNoXY ==
    [coords |-> [a \in {"T"} |-> {1, 2}], vars |-> {"temp"}]

\* A dataset with X/Y but neither Z nor T, whose level values are 2.9 and 4.
GridNoZT ==
    [coords |-> [a \in {"X", "Y", "level", "depth"} |->
                    CASE a = "X" -> {0, 10}
                      [] a = "Y" -> {0, 10}
                      [] a = "level" -> {29, 40}
                      [] a = "depth" -> {10, 15, 20}],
     vars |-> {"temp"}]

\* The dataset handles the dataset provider hands out: handle -> content.
\* Handles 1 and 2 are two independent loads of the same content.
DatasetStore ==
    [h \in 1..4 |-> CASE h = 1 -> GridA [] h = 2 -> GridA
                      [] h = 3 -> GridNoXY [] h = 4 -> GridNoZT]

Handles == DOMAIN DatasetStore

\* An exception raised by a lookup.
Exc(kind, arg) == [exc |-> kind, arg |-> arg]

IsExc(r) == "exc" \in DOMAIN r

Abs(n) == IF n < 0 THEN 0 - n ELSE n

\* The coordinate value closest to v; of two equally close, the larger.
Nearest(values, v) ==
    CHOOSE c \in values :
        \A d \in values : Abs(c - v) < Abs(d - v) \/ (Abs(c - v) = Abs(d - v) /\ c >= d)

WithCoords(ds, axis, values) ==
    [ds EXCEPT !.coords = [ds.coords EXCEPT ![axis] = values]]

\* sel(axis=label, method="nearest")
SelNearest(ds, axis, label) ==
    IF axis \notin DOMAIN ds.coords THEN Exc("KeyError", <<axis>>)
    ELSE IF ~Parseable(label) THEN Exc("ValueError", label)
    ELSE IF ds.coords[axis] = {} THEN Exc("KeyError", label)
    ELSE WithCoords(ds, axis, {Nearest(ds.coords[axis], ParseLabel(label))})

\* sel(axis=label) with method=None: the label must be a coordinate value.
SelExact(ds, axis, label) ==
    IF axis \notin DOMAIN ds.coords THEN Exc("KeyError", <<axis>>)
    ELSE IF ~Parseable(label) THEN Exc("KeyError", label)
    ELSE IF ParseLabel(label) \notin ds.coords[axis] THEN Exc("KeyError", label)
    ELSE WithCoords(ds, axis, {ParseLabel(label)})

\* sel(axis=slice(lo, hi)): label-based, both ends included.
SelSlice(ds, axis, lo, hi) ==
    IF axis \notin DOMAIN ds.coords THEN Exc("KeyError", <<axis>>)
    ELSE IF ~Parseable(lo) THEN Exc("ValueError", lo)
    ELSE IF ~Parseable(hi) THEN Exc("ValueError", hi)
    ELSE WithCoords(ds, axis,
            {c \in ds.coords[axis] : ParseLabel(lo) <= c /\ c <= ParseLabel(hi)})

(***************************************************************************)
(* Requests and queries.                                                   *)
(***************************************************************************)

\* The query-parameter names EDRQuery claims for itself.
edr_query_params == {"point", "z", "datetime", "parameters", "format"}

P(name, value) == <<name, value>>

Pt == P("point", <<"2", "7">>)

\* The query strings of the model, in the order the parameters were sent.
QueryStrings ==
    << <<Pt>>,
       <<Pt, P("z", <<"4">>), P("datetime", <<"2">>), P("parameters", <<"temp">>),
         P("format", <<"csv">>), P("level", <<"31">>)>>,
       <<Pt, P("level", <<"30">>), P("depth", <<"10", "/", "20">>)>>,
       <<Pt, P("depth", <<"10", "/", "20">>), P("level", <<"30">>)>>,
       <<Pt, P("datetime", <<"1", "/", "2">>), P("parameters", <<"temp", ",", "salinity">>),
         P("format", <<"cf_covjson">>)>>,
       <<Pt, P("datetime", <<"1", "/", "2", "/", "3">>)>>,
       <<Pt, P("datetime", <<"yesterday">>)>>,
       <<Pt, P("parameters", <<"temp", ",", "oxygen">>)>>,
       <<Pt, P("level", <<"20", "/", "30", "/", "40">>), P("depth", <<"10", "/", "20">>)>>,
       <<Pt, P("format", <<"bogus">>)>>,
       <<Pt, P("z", <<"4">>)>>,
       <<Pt, P("datetime", <<"2">>)>> >>

\* A Request object: equal to another only if it is the same object, so its
\* identity is part of its value.  Object Len(QueryStrings) + 1 is a second
\* request carrying the first query string.
RequestObject(i) ==
    [id |-> i,
     query_params |-> IF i <= Len(QueryStrings) THEN QueryStrings[i] ELSE QueryStrings[1]]

RequestIds == 1..(Len(QueryStrings) + 1)

RECURSIVE Lookup(_, _, _)
Lookup(qp, name, i) ==
    IF i > Len(qp) THEN <<>>
    ELSE IF qp[i][1] = name THEN qp[i][2]
    ELSE Lookup(qp, name, i + 1)

\* The EDRQuery value built from a request's reserved parameters.  An absent
\* parameter and an empty one are both the empty string: the handler only
\* ever tests these fields for truth.
edr_query(request) ==
    [point |-> Lookup(request.query_params, "point", 1),
     z |-> Lookup(request.query_params, "z", 1),
     datetime |-> Lookup(request.query_params, "datetime", 1),
     parameters |-> Lookup(request.query_params, "parameters", 1),
     format |-> Lookup(request.query_params, "format", 1)]

\* Python truth of an Optional[str].
Truthy(s) == s # <<>>

(***************************************************************************)
(* Cache key.                                                              *)
(***************************************************************************)

RECURSIVE SumSet(_)
SumSet(S) == IF S = {} THEN 0 ELSE LET x == CHOOSE y \in S : TRUE IN x + SumSet(S \ {x})

RECURSIVE SumOver(_, _)
SumOver(f, D) ==
    IF D = {} THEN 0
    ELSE LET a == CHOOSE y \in D : TRUE
         IN  SumSet(f[a]) + Cardinality(f[a]) + SumOver(f, D \ {a})

\* A dataset object: the handle it is held by and the content behind it.
Dataset(store, h) == [handle |-> h, content |-> store[h]]

\* dask.base.tokenize(dataset): a digest of the dataset's content.
tokenize(dataset) ==
    <<DOMAIN dataset.content.coords,
      SumOver(dataset.content.coords, DOMAIN dataset.content.coords),
      dataset.content.vars>>

\* A key that takes the dataset object's identity for its fingerprint.
cache_key_by_identity(route, request, query, dataset) ==
    <<route, request, query, <<{}, dataset.handle, {}>> >>

cache_key_from_request(route, request, query, dataset) ==
    <<route, request, query, tokenize(dataset)>>

(***************************************************************************)
(* Formats.                                                                *)
(***************************************************************************)

\* position_formats(): the registered entry points, name -> format function.
position_formats ==
    [name \in {"cf_covjson", "csv"} |->
        IF name = "cf_covjson" THEN "to_cf_covjson" ELSE "to_csv"]

RECURSIVE Digits(_)
\* str(n) for n >= 0.
Digits(n) == IF n < 10 THEN <<n>> ELSE Append(Digits(n \div 10), n % 10)

RECURSIVE int(_)
\* int(s) of a decimal digit string.
int(s) == IF Len(s) = 0 THEN 0 ELSE 10 * int(SubSeq(s, 1, Len(s) - 1)) + s[Len(s)]

\* The Response a format function builds from the dataset it is given; its
\* content-length header is the decimal text of the body's length.
Response(format_fn, ds) ==
    [format_fn |-> format_fn,
     body |-> ds,
     content_length |->
        Digits(Cardinality(ds.vars) + 3 * SumOver(ds.coords, DOMAIN ds.coords))]

\* A streamed Response: the same body, no content-length header.
StreamingResponse(format_fn, ds) ==
    [format_fn |-> format_fn, body |-> ds, content_length |-> <<>>]

(***************************************************************************)
(* The selection steps of get_position, each as a function of the locals   *)
(* it reads.  A step yields the reduced dataset, an HTTPException, or the  *)
(* exception of a lookup that the handler does not catch.                  *)
(***************************************************************************)

NoneValue == [none |-> TRUE]

IsNone(v) == "none" \in DOMAIN v

\* HTTPException(status_code, detail): detail is a fixed text and the value
\* interpolated into it (the empty string when nothing is interpolated).
HTTPException(status_code, text, about) ==
    [status_code |-> status_code, text |-> text, about |-> about]

IsHTTP(r) == "status_code" \in DOMAIN r

\* Anything a step can end the request with.
IsFailure(r) == IsHTTP(r) \/ IsExc(r)

\* dataset.cf.sel(X=query.point.x, Y=query.point.y, method="nearest")
select_xy(dataset, query) ==
    LET px == <<query.point[1]>>
        py == <<query.point[2]>>
        rx == SelNearest(dataset.content, "X", px)
        r  == IF IsExc(rx) THEN rx ELSE SelNearest(rx, "Y", py)
    IN  IF IsExc(r) /\ r.exc = "KeyError"
        THEN HTTPException(404, "Dataset does not have CF Convention compliant metadata", <<>>)
        ELSE r

\* if query.z: ds = dataset.cf.sel(Z=query.z, method="nearest")
select_z(dataset, ds, query) ==
    IF Truthy(query.z) THEN SelNearest(dataset.content, "Z", query.z) ELSE ds

\* A datetime step that takes the first two of any number of pieces as a range.
select_t_lenient(ds, query) ==
    IF ~Truthy(query.datetime) THEN ds
    ELSE LET datetimes == split(query.datetime, "/")
             r == IF Len(datetimes) = 1 THEN SelNearest(ds, "T", datetimes[1])
                  ELSE SelSlice(ds, "T", datetimes[1], datetimes[2])
         IN  IF IsExc(r) /\ r.exc = "ValueError"
             THEN HTTPException(404, "Invalid datetime", r.arg)
             ELSE r

\* The datetime step: nearest for one piece, a slice for two.
select_t(ds, query) ==
    IF ~Truthy(query.datetime) THEN ds
    ELSE LET datetimes == split(query.datetime, "/")
             r == IF Len(datetimes) = 1 THEN SelNearest(ds, "T", datetimes[1])
                  ELSE IF Len(datetimes) = 2
                       THEN SelSlice(ds, "T", datetimes[1], datetimes[2])
                  ELSE HTTPException(404, "Invalid datetimes submitted", <<>>)
         IN  IF IsExc(r) /\ r.exc = "ValueError"
             THEN HTTPException(404, "Invalid datetime", r.arg)
             ELSE r

\* ds.cf[query.parameters.split(",")]
select_vars(ds, query) ==
    IF ~Truthy(query.parameters) THEN ds
    ELSE LET names == split(query.parameters, ",")
             missing == {i \in 1..Len(names) : names[i] \notin {<<v>> : v \in ds.vars}}
         IN  IF missing # {}
             THEN LET first == CHOOSE i \in missing : \A j \in missing : i <= j
                  IN  HTTPException(404, "Invalid variable", names[first])
             ELSE [ds EXCEPT !.vars = {v \in ds.vars : <<v>> \in {names[i] : i \in 1..Len(names)}}]

\* One entry of the query_params dict: a raw string, or a slice of two pieces.
Raw(key, value) == [key |-> key, is_slice |-> FALSE, value |-> value, start |-> <<>>, stop |-> <<>>]

Slice(key, start, stop) == [key |-> key, is_slice |-> TRUE, value |-> <<>>, start |-> start, stop |-> stop]

RECURSIVE DropReserved(_)
\* dict(request.query_params) with every name of edr_query_params deleted.
DropReserved(qp) ==
    IF qp = <<>> THEN <<>>
    ELSE IF qp[1][1] \in edr_query_params THEN DropReserved(Tail(qp))
    ELSE <<Raw(qp[1][1], qp[1][2])>> \o DropReserved(Tail(qp))

\* A loop that takes the mode from the entry it looks at, not from any entry.
RECURSIVE extra_plan_last(_, _, _)
extra_plan_last(query_params, i, method) ==
    IF i > Len(query_params) THEN [query_params |-> query_params, method |-> method]
    ELSE LET split_value == split(query_params[i].value, "/")
         IN  IF Len(split_value) = 1 THEN extra_plan_last(query_params, i + 1, "nearest")
             ELSE IF Len(split_value) = 2
                  THEN extra_plan_last(
                          [query_params EXCEPT ![i] =
                              Slice(query_params[i].key, split_value[1], split_value[2])],
                          i + 1, "None")
             ELSE HTTPException(404, "Too many values for selecting", <<query_params[i].key>>)

RECURSIVE extra_plan(_, _, _)
\* The loop over query_params.items(): two pieces make a slice and turn the
\* method off, more than two end the request.
extra_plan(query_params, i, method) ==
    IF i > Len(query_params) THEN [query_params |-> query_params, method |-> method]
    ELSE LET split_value == split(query_params[i].value, "/")
         IN  IF Len(split_value) = 1 THEN extra_plan(query_params, i + 1, method)
             ELSE IF Len(split_value) = 2
                  THEN extra_plan(
                          [query_params EXCEPT ![i] =
                              Slice(query_params[i].key, split_value[1], split_value[2])],
                          i + 1, "None")
             ELSE HTTPException(404, "Too many values for selecting", <<query_params[i].key>>)

RECURSIVE sel(_, _, _, _)
\* ds.sel(query_params, method=method): one call over all the entries.
sel(ds, query_params, i, method) ==
    IF i > Len(query_params) THEN ds
    ELSE LET e == query_params[i]
             r == IF e.is_slice
                  THEN IF method = "nearest" THEN Exc("NotImplementedError", <<e.key>>)
                       ELSE SelSlice(ds, e.key, e.start, e.stop)
                  ELSE IF method = "nearest" THEN SelNearest(ds, e.key, e.value)
                  ELSE SelExact(ds, e.key, e.value)
         IN  IF IsExc(r) THEN r ELSE sel(r, query_params, i + 1, method)

\* A lookup that falls back to the default for a name it does not know.
resolve_format_fallback(query) ==
    IF Truthy(query.format) /\ query.format \in {<<name>> : name \in DOMAIN position_formats}
    THEN [fn |-> position_formats[query.format[1]]]
    ELSE [fn |-> "to_cf_covjson"]

\* The format function for query.format, or the default.
resolve_format(query) ==
    IF Truthy(query.format)
    THEN IF query.format \in {<<name>> : name \in DOMAIN position_formats}
         THEN [fn |-> position_formats[query.format[1]]]
         ELSE HTTPException(404, "is not a valid format for EDR position queries", query.format)
    ELSE [fn |-> "to_cf_covjson"]

(***************************************************************************)
(* State.                                                                  *)
(***************************************************************************)

VARIABLES
    datasets,   \* the dataset provider's handles: handle -> content
    cache,      \* the cachey.Cache: key -> [value, cost, nbytes]
    now,        \* the reading of time.perf_counter()
    running,    \* the task the event loop is running, 0 when it is free
    task,       \* per request: the handler's position and its locals
    probe       \* arguments and results of cache_key_from_request called alone

vars == <<datasets, cache, now, running, task, probe>>

NoRequest == [id |-> 0, query_params |-> <<>>]

NoProbe == [a |-> <<>>, b |-> <<>>, keys |-> <<>>]

\* A request that has not arrived.  calls, puts, fmt_arg and fmt_end record
\* what the handler did: format function invocations, cache.put calls, the
\* dataset the format function was given and the time it returned.
IdleTask ==
    [pc |-> "idle", request |-> NoRequest, dataset |-> 0, query |-> edr_query(NoRequest),
     cache_key |-> <<>>, response |-> NoneValue, ds |-> NoneValue,
     ct_start |-> 0, ct_stop |-> 0,
     query_params |-> <<>>, method |-> "", sel_called |-> FALSE,
     format_fn |-> "", raised |-> NoneValue, failed_at |-> "",
     calls |-> 0, puts |-> 0, fmt_arg |-> NoneValue, fmt_end |-> 0,
     put |-> NoneValue]

Init ==
    /\ datasets = DatasetStore
    /\ cache = [k \in {} |-> NoneValue]
    /\ now = 0
    /\ running = 0
    /\ task = [t \in Tasks |-> IdleTask]
    /\ probe = NoProbe

\* The requests that arrive: a Request object and the dataset handle the
\* provider resolves for it.
Arrivals ==
    {<<i, 1>> : i \in RequestIds \ {11, 12}} \cup {<<1, 3>>, <<3, 4>>, <<11, 4>>, <<12, 4>>}

\* cache.get(key)
cache_get(c, key) == IF key \in DOMAIN c THEN c[key].value ELSE NoneValue

\* cache.put(key, value, cost, nbytes)
cache_put(c, key, value, cost, nbytes) ==
    [k \in DOMAIN c \cup {key} |->
        IF k = key THEN [value |-> value, cost |-> cost, nbytes |-> nbytes] ELSE c[k]]

\* A handler that also awaits its cache lookup.
SuspendsAtLookup(p) == p \in {"formatting", "lookup"}

\* The positions at which the coroutine is suspended: the await of the
\* format function's thread.
Suspends(p) == p = "formatting"

Finished(p) == p \in {"done", "error"}

\* The event loop runs one handler at a time: t takes a step if it has the
\* loop, or if the loop is free.
Turn(t) == running \in {0, t}

\* The handler of t moves to the locals r; the event loop stays with t
\* unless the handler is suspended or has ended there.
Go(t, r) ==
    /\ task' = [task EXCEPT ![t] = r]
    /\ running' = IF Suspends(r.pc) \/ Finished(r.pc) THEN 0 ELSE t

\* The request ends with the exception e, raised inside the CostTimer block.
RaiseTimed(t, step, e) ==
    Go(t, [task[t] EXCEPT !.pc = "error", !.raised = e, !.failed_at = step,
                          !.ct_stop = now])

(***************************************************************************)
(* The handler, one action per step of get_position.                       *)
(***************************************************************************)

\* The event loop starts the handler for an arriving request: the key is
\* computed and the cache asked for it.
Receive(t, i, h) ==
    /\ task[t].pc = "idle"
    /\ \A u \in Tasks : u < t => task[u].pc # "idle"
    /\ Turn(t)
    /\ <<i, h>> \in Arrivals
    /\ LET request == RequestObject(i)
           query == edr_query(request)
           cache_key == cache_key_from_request("position", request, query, Dataset(datasets, h))
       IN  Go(t, [task[t] EXCEPT !.pc = "lookup", !.request = request, !.dataset = h,
                                 !.query = query, !.cache_key = cache_key,
                                 !.response = cache_get(cache, cache_key)])
    /\ UNCHANGED <<datasets, cache, now, probe>>

\* if response is not None: return response
CacheHit(t) ==
    /\ task[t].pc = "lookup"
    /\ Turn(t)
    /\ ~IsNone(task[t].response)
    /\ Go(t, [task[t] EXCEPT !.pc = "done"])
    /\ UNCHANGED <<datasets, cache, now, probe>>

\* The miss path begins: the CostTimer starts and the point is selected.
SelectXY(t) ==
    /\ task[t].pc = "lookup"
    /\ Turn(t)
    /\ IsNone(task[t].response)
    /\ LET r == select_xy(Dataset(datasets, task[t].dataset), task[t].query)
           started == [task EXCEPT ![t].ct_start = now]
       IN  IF IsFailure(r)
           THEN Go(t, [started[t] EXCEPT !.pc = "error", !.raised = r, !.failed_at = "xy",
                                         !.ct_stop = now])
           ELSE Go(t, [started[t] EXCEPT !.pc = "xy", !.ds = r])
    /\ UNCHANGED <<datasets, cache, now, probe>>

SelectZ(t) ==
    /\ task[t].pc = "xy"
    /\ Turn(t)
    /\ LET r == select_z(Dataset(datasets, task[t].dataset), task[t].ds, task[t].query)
       IN  IF IsFailure(r) THEN RaiseTimed(t, "z", r)
           ELSE Go(t, [task[t] EXCEPT !.pc = "z", !.ds = r])
    /\ UNCHANGED <<datasets, cache, now, probe>>

SelectT(t) ==
    /\ task[t].pc = "z"
    /\ Turn(t)
    /\ LET r == select_t(task[t].ds, task[t].query)
       IN  IF IsFailure(r) THEN RaiseTimed(t, "t", r)
           ELSE Go(t, [task[t] EXCEPT !.pc = "t", !.ds = r])
    /\ UNCHANGED <<datasets, cache, now, probe>>

SelectVars(t) ==
    /\ task[t].pc = "t"
    /\ Turn(t)
    /\ LET r == select_vars(task[t].ds, task[t].query)
       IN  IF IsFailure(r) THEN RaiseTimed(t, "vars", r)
           ELSE Go(t, [task[t] EXCEPT !.pc = "vars", !.ds = r])
    /\ UNCHANGED <<datasets, cache, now, probe>>

\* The extra dimensions: the loop over the remaining parameters, then the
\* one sel call.
SelectExtra(t) ==
    /\ task[t].pc = "vars"
    /\ Turn(t)
    /\ LET plan == extra_plan(DropReserved(task[t].request.query_params), 1, "nearest")
       IN  IF IsHTTP(plan) THEN RaiseTimed(t, "extra", plan)
           ELSE LET r == sel(task[t].ds, plan.query_params, 1, plan.method)
                    called == [task[t] EXCEPT !.query_params = plan.query_params,
                                              !.method = plan.method, !.sel_called = TRUE]
                IN  IF IsFailure(r)
                    THEN Go(t, [called EXCEPT !.pc = "error", !.raised = r,
                                              !.failed_at = "extra", !.ct_stop = now])
                    ELSE Go(t, [called EXCEPT !.pc = "extra", !.ds = r])
    /\ UNCHANGED <<datasets, cache, now, probe>>

\* The format function is looked up; the CostTimer block ends here.
ResolveFormat(t) ==
    /\ task[t].pc = "extra"
    /\ Turn(t)
    /\ LET r == resolve_format(task[t].query)
       IN  IF IsFailure(r) THEN RaiseTimed(t, "format", r)
           ELSE Go(t, [task[t] EXCEPT !.pc = "resolved", !.format_fn = r.fn, !.ct_stop = now])
    /\ UNCHANGED <<datasets, cache, now, probe>>

\* await asyncio.to_thread(format_fn, ds): the call is handed to a worker
\* thread and the coroutine is suspended.
AwaitFormatter(t) ==
    /\ task[t].pc = "resolved"
    /\ Turn(t)
    /\ Go(t, [task[t] EXCEPT !.pc = "formatting"])
    /\ UNCHANGED <<datasets, cache, now, probe>>

\* The worker thread's call of the format function ends: it returns a
\* Response, returns a streamed Response, or raises.
FormatterReturns(t, outcome) ==
    /\ task[t].pc = "formatting"
    /\ task' = [task EXCEPT ![t] =
                  [task[t] EXCEPT !.pc = "formatted",
                                  !.calls = @ + 1,
                                  !.fmt_arg = task[t].ds,
                                  !.fmt_end = now,
                                  !.response =
                                      CASE outcome = "response" ->
                                               Response(task[t].format_fn, task[t].ds)
                                        [] outcome = "stream" ->
                                               StreamingResponse(task[t].format_fn, task[t].ds)
                                        [] outcome = "raise" -> NoneValue,
                                  !.raised = IF outcome = "raise"
                                             THEN Exc("FormatError", <<task[t].format_fn>>)
                                             ELSE NoneValue]]
    /\ UNCHANGED <<datasets, cache, now, running, probe>>

\* The event loop resumes the coroutine with the thread's result: the
\* exception propagates, or response is bound and the assert passes.
Resume(t) ==
    /\ task[t].pc = "formatted"
    /\ Turn(t)
    /\ IF IsNone(task[t].raised)
       THEN Go(t, [task[t] EXCEPT !.pc = "put"])
       ELSE Go(t, [task[t] EXCEPT !.pc = "error", !.failed_at = "formatter"])
    /\ UNCHANGED <<datasets, cache, now, probe>>

\* response.headers["content-length"]
HasLength(response) == response.content_length # <<>>

\* The arguments of the cache.put call.
put_args(r) ==
    [key |-> r.cache_key, value |-> r.response, cost |-> r.ct_stop - r.ct_start,
     nbytes |-> int(r.response.content_length)]

\* A put made before the content-length header is read.
cache_stored_early(c, r) ==
    cache_put(c, r.cache_key, r.response, r.ct_stop - r.ct_start, 0)

\* The cache after the handler's last statement: the arguments are
\* evaluated first, so a missing header raises before anything is stored.
cache_stored(c, r) ==
    IF HasLength(r.response)
    THEN cache_put(c, put_args(r).key, put_args(r).value, put_args(r).cost, put_args(r).nbytes)
    ELSE c

\* cache.put(cache_key, response, ct.time, int(content-length)); return
CachePut(t) ==
    /\ task[t].pc = "put"
    /\ Turn(t)
    /\ cache' = cache_stored(cache, task[t])
    /\ IF HasLength(task[t].response)
       THEN Go(t, [task[t] EXCEPT !.pc = "done", !.puts = @ + 1, !.put = put_args(task[t])])
       ELSE Go(t, [task[t] EXCEPT !.pc = "error", !.failed_at = "put",
                                  !.raised = Exc("KeyError", <<"content-length">>)])
    /\ UNCHANGED <<datasets, now, probe>>

\* Time passes.
Tick ==
    /\ now < MaxClock
    /\ now' = now + 1
    /\ UNCHANGED <<datasets, cache, running, task, probe>>

Next ==
    \/ \E t \in Tasks, i \in RequestIds, h \in Handles : Receive(t, i, h)
    \/ \E t \in Tasks : CacheHit(t)
    \/ \E t \in Tasks : SelectXY(t)
    \/ \E t \in Tasks : SelectZ(t)
    \/ \E t \in Tasks : SelectT(t)
    \/ \E t \in Tasks : SelectVars(t)
    \/ \E t \in Tasks : SelectExtra(t)
    \/ \E t \in Tasks : ResolveFormat(t)
    \/ \E t \in Tasks : AwaitFormatter(t)
    \/ \E t \in Tasks, outcome \in {"response", "stream", "raise"} : FormatterReturns(t, outcome)
    \/ \E t \in Tasks : Resume(t)
    \/ \E t \in Tasks : CachePut(t)

\* The handler alone: no time passes, every cost is 0.
Spec == Init /\ [][Next]_vars

NextTimed == Next \/ Tick

\* The handler under a clock that advances at any moment.
SpecTimed == Init /\ [][NextTimed]_vars

(***************************************************************************)
(* cache_key_from_request called alone, on two sets of arguments.          *)
(***************************************************************************)

Routes == {"position", "area"}

KeyArgs ==
    {[route |-> r, request |-> RequestObject(i), query |-> edr_query(RequestObject(q)),
      dataset |-> Dataset(DatasetStore, h)] :
        r \in Routes, i \in {1, 2, Len(QueryStrings) + 1}, q \in {1, 2}, h \in Handles}

InitKey ==
    /\ datasets = DatasetStore
    /\ cache = [k \in {} |-> NoneValue]
    /\ now = 0
    /\ running = 0
    /\ task = [t \in Tasks |-> IdleTask]
    /\ probe \in {[a |-> x, b |-> y, keys |-> <<>>] : x \in KeyArgs, y \in KeyArgs}

ComputeKeys ==
    /\ probe.keys = <<>>
    /\ probe' = [probe EXCEPT !.keys =
                    <<cache_key_from_request(probe.a.route, probe.a.request,
                                             probe.a.query, probe.a.dataset),
                      cache_key_from_request(probe.b.route, probe.b.request,
                                             probe.b.query, probe.b.dataset)>>]
    /\ UNCHANGED <<datasets, cache, now, running, task>>

SpecKey == InitKey /\ [][ComputeKeys]_vars

(***************************************************************************)
(* Properties.                                                             *)
(***************************************************************************)

\* The steps of the miss path, in the order of the source.
StepRank ==
    [s \in {"xy", "z", "t", "vars", "extra", "format", "formatter", "put"} |->
        CASE s = "xy" -> 1 [] s = "z" -> 2 [] s = "t" -> 3 [] s = "vars" -> 4
          [] s = "extra" -> 5 [] s = "format" -> 6 [] s = "formatter" -> 7 [] s = "put" -> 8]

\* How many steps of the miss path the handler with locals r has completed.
Completed(r) ==
    CASE r.pc \in {"idle", "lookup"} -> 0
      [] r.pc = "xy" -> 1 [] r.pc = "z" -> 2 [] r.pc = "t" -> 3 [] r.pc = "vars" -> 4
      [] r.pc = "extra" -> 5
      [] r.pc \in {"resolved", "formatting", "formatted"} -> 6
      [] r.pc = "put" -> 7
      [] r.pc = "done" -> IF r.puts = 1 THEN 8 ELSE 0
      [] r.pc = "error" -> StepRank[r.failed_at] - 1

Passed(r, step) == Completed(r) >= StepRank[step]

FailedAt(r, step) == r.pc = "error" /\ r.failed_at = step

Attempted(r, step) == Passed(r, step) \/ FailedAt(r, step)

CountSep(s, sep) == Cardinality({i \in 1..Len(s) : s[i] = sep})

\* The coordinates of the dataset the request of r was made against.
Orig(r) == DatasetStore[r.dataset].coords

\* C1: once a request has populated the cache, a later request with the same
\* route, the same query parameters and a structurally identical dataset
\* finds the stored Response (a hit), so the format function is not called
\* for it.
C1_RepeatIsHit ==
    \A t \in Tasks, u \in Tasks :
        ( /\ t # u
          /\ task[u].pc = "done" /\ task[u].puts = 1
          /\ task[u].cache_key \in DOMAIN cache
          /\ task[t].pc = "lookup"
          /\ task[t].request.query_params = task[u].request.query_params
          /\ datasets[task[t].dataset] = datasets[task[u].dataset] )
        => ~IsNone(task[t].response)

\* C2: a request that ends in an error never called cache.put, and the step
\* that ends it leaves the cache as it was; the cache changes only in a step
\* in which a request completes its one put and returns.
C2_NothingCachedOnFailure ==
    [][ /\ \A t \in Tasks :
              task'[t].pc = "error" =>
                  /\ task'[t].puts = 0
                  /\ IsNone(task'[t].put)
                  /\ (task[t].pc # "error" => cache' = cache)
        /\ cache' # cache =>
              \E t \in Tasks : /\ task'[t].pc = "done"
                               /\ task[t].pc = "put"
                               /\ task'[t].puts = task[t].puts + 1 ]_vars

C2_Witness ==
    \E t \in Tasks, u \in Tasks :
        /\ FailedAt(task[t], "put")
        /\ task[u].pc = "done" /\ task[u].puts = 1
        /\ DOMAIN cache = {task[u].cache_key}

\* C3: the key is the four components in order; two calls that differ only
\* in the route, or only in the dataset's structure, give different keys;
\* two calls equal in route, request, query and dataset structure give the
\* same key; structurally identical datasets give the same fourth component
\* whatever handle holds them.
C3_KeyComponents ==
    probe.keys # <<>> =>
        LET a == probe.a
            b == probe.b
            ka == probe.keys[1]
            kb == probe.keys[2]
            sameRoute == a.route = b.route
            sameRest == a.request = b.request /\ a.query = b.query
            sameData == a.dataset.content = b.dataset.content
        IN  /\ Len(ka) = 4 /\ ka[1] = a.route /\ ka[2] = a.request /\ ka[3] = a.query
            /\ (~sameRoute /\ sameRest /\ sameData) => ka # kb
            /\ (sameRoute /\ sameRest /\ ~sameData) => ka # kb
            /\ (sameRoute /\ sameRest /\ sameData) => ka = kb
            /\ sameData <=> ka[4] = kb[4]

C3_Witness ==
    /\ probe.keys # <<>>
    /\ probe.a.route = probe.b.route
    /\ probe.a.request = probe.b.request
    /\ probe.a.query = probe.b.query
    /\ probe.a.dataset.handle # probe.b.dataset.handle
    /\ probe.a.dataset.content = probe.b.dataset.content
    /\ probe.keys[1] = probe.keys[2]

\* C4: the dataset handed to the format function is reduced to the X/Y
\* point nearest the query's point, also when z is present, and the
\* provider's datasets are as they were.
C4_PointKept ==
    /\ datasets = DatasetStore
    /\ \A t \in Tasks :
          task[t].calls = 1 =>
              /\ task[t].fmt_arg.coords["X"] =
                    {Nearest(Orig(task[t])["X"], NumOf[task[t].query.point[1]])}
              /\ task[t].fmt_arg.coords["Y"] =
                    {Nearest(Orig(task[t])["Y"], NumOf[task[t].query.point[2]])}

\* The pieces of a value around its first separator.
Before(s, sep) ==
    SubSeq(s, 1, (CHOOSE i \in 1..Len(s) : s[i] = sep /\ \A j \in 1..(i - 1) : s[j] # sep) - 1)

After(s, sep) ==
    SubSeq(s, (CHOOSE i \in 1..Len(s) : s[i] = sep /\ \A j \in 1..(i - 1) : s[j] # sep) + 1, Len(s))

\* What the datetime step does for the locals r of a request that has
\* attempted it; `about` is what the detail of the error for two or more
\* separators carries.
DatetimeStep(r, about) ==
    LET d == r.query.datetime
        n == CountSep(d, "/")
        hasT == "T" \in DOMAIN Orig(r)
    IN  (Truthy(d) /\ Attempted(r, "t")) =>
          /\ (n = 0 /\ hasT /\ Parseable(d)) =>
                /\ Passed(r, "t")
                /\ r.ds.coords["T"] = {Nearest(Orig(r)["T"], ParseLabel(d))}
          /\ (n = 1 /\ hasT /\ Parseable(Before(d, "/")) /\ Parseable(After(d, "/"))) =>
                /\ Passed(r, "t")
                /\ r.ds.coords["T"] =
                      {c \in Orig(r)["T"] :
                          ParseLabel(Before(d, "/")) <= c /\ c <= ParseLabel(After(d, "/"))}
          /\ n >= 2 =>
                /\ FailedAt(r, "t")
                /\ IsHTTP(r.raised)
                /\ r.raised.status_code = 404
                /\ r.raised.about = about
          /\ (n = 0 /\ hasT /\ ~Parseable(d)) =>
                /\ FailedAt(r, "t")
                /\ IsHTTP(r.raised)
                /\ r.raised.status_code = 404
                /\ r.raised.text = "Invalid datetime"
                /\ r.raised.about = d

\* C5 as stated: no separator selects the nearest T, one separator the
\* inclusive range, two or more end the request with a 404 whose detail
\* carries the datetime string, and a ValueError of the T lookup becomes a
\* 404 carrying its message.
C5_DatetimeSurfaced == \A t \in Tasks : DatetimeStep(task[t], task[t].query.datetime)

\* C5 amended: as above, but the detail of the 404 for two or more
\* separators is the fixed text "Invalid datetimes submitted" and carries
\* nothing of the datetime string.
C5_Datetime ==
    \A t \in Tasks :
        /\ DatetimeStep(task[t], <<>>)
        /\ (FailedAt(task[t], "t") /\ CountSep(task[t].query.datetime, "/") >= 2) =>
              task[t].raised.text = "Invalid datetimes submitted"

C5_Witness ==
    \E t \in Tasks, u \in Tasks :
        /\ FailedAt(task[t], "t") /\ CountSep(task[t].query.datetime, "/") >= 2
        /\ Passed(task[u], "t") /\ CountSep(task[u].query.datetime, "/") = 1
        /\ Truthy(task[u].query.datetime)

\* The positions, in the request's query parameters, of the extra ones.
ExtraIdx(r) ==
    {i \in 1..Len(r.request.query_params) : r.request.query_params[i][1] \notin edr_query_params}

ExtraValue(r, i) == r.request.query_params[i][2]

ExtraName(r, i) == r.request.query_params[i][1]

\* C6: the extra step takes exactly the non-reserved parameters; with a
\* value of more than two pieces the request ends with a 404 naming such a
\* dimension and no sel call; otherwise one sel call is made, in nearest
\* mode if every value is a single piece, and with any two-piece value
\* (wherever it stands) as a slice and every single-piece value matched
\* exactly.
C6_ExtraDimensions ==
    \A t \in Tasks :
        LET r == task[t]
            many == {i \in ExtraIdx(r) : CountSep(ExtraValue(r, i), "/") >= 2}
            ranges == {i \in ExtraIdx(r) : CountSep(ExtraValue(r, i), "/") = 1}
            entry(i) == CHOOSE e \in {r.query_params[j] : j \in 1..Len(r.query_params)} :
                            e.key = ExtraName(r, i)
        IN  Attempted(r, "extra") =>
              IF many # {}
              THEN /\ FailedAt(r, "extra")
                   /\ IsHTTP(r.raised)
                   /\ r.raised.status_code = 404
                   /\ \E i \in many : r.raised.about = <<ExtraName(r, i)>>
                   /\ ~r.sel_called
              ELSE /\ r.sel_called
                   /\ Len(r.query_params) = Cardinality(ExtraIdx(r))
                   /\ {r.query_params[j].key : j \in 1..Len(r.query_params)} =
                         {ExtraName(r, i) : i \in ExtraIdx(r)}
                   /\ r.method = IF ranges # {} THEN "None" ELSE "nearest"
                   /\ \A i \in ExtraIdx(r) :
                         /\ entry(i).is_slice <=> i \in ranges
                         /\ i \in ranges =>
                               /\ entry(i).start = Before(ExtraValue(r, i), "/")
                               /\ entry(i).stop = After(ExtraValue(r, i), "/")
                         /\ i \notin ranges => entry(i).value = ExtraValue(r, i)
                   /\ FailedAt(r, "extra") => IsExc(r.raised)
                   /\ Passed(r, "extra") =>
                         \A i \in ExtraIdx(r) :
                             LET v == ExtraValue(r, i)
                                 all == Orig(r)[ExtraName(r, i)]
                             IN  r.ds.coords[ExtraName(r, i)] =
                                    IF i \in ranges
                                    THEN {c \in all : ParseLabel(Before(v, "/")) <= c
                                                      /\ c <= ParseLabel(After(v, "/"))}
                                    ELSE IF ranges # {} THEN {ParseLabel(v)}
                                    ELSE {Nearest(all, ParseLabel(v))}

\* A range sent before a single value: the single value is matched exactly.
C6_Witness ==
    \E t \in Tasks :
        /\ Passed(task[t], "extra")
        /\ Len(task[t].query_params) = 2
        /\ task[t].query_params[1].is_slice
        /\ ~task[t].query_params[2].is_slice
        /\ task[t].method = "None"

\* C7: a request that fails in a selection step ends with an HTTPException
\* of status 404, never with the lookup's own exception.
C7_TypedErrors ==
    \A t \in Tasks :
        (task[t].pc = "error" /\ task[t].failed_at \in {"xy", "z", "t", "vars", "extra"}) =>
            /\ IsHTTP(task[t].raised)
            /\ task[t].raised.status_code = 404

C9_CostIsFullPath ==
    \A t \in Tasks :
        (task[t].pc = "done" /\ task[t].calls = 1) =>
            /\ task[t].puts = 1
            /\ task[t].put.key = task[t].cache_key
            /\ task[t].put.value = task[t].response
            /\ Digits(task[t].put.nbytes) = task[t].response.content_length
            /\ task[t].put.cost = task[t].fmt_end - task[t].ct_start

\* The positions at which the handler is between two of its statements and
\* has not yielded.
InHandler(p) == p \in {"lookup", "xy", "z", "t", "vars", "extra", "resolved", "put"}

\* C10: the handler yields only at the await of the format function: while
\* a request is between cache.get and that await, or between its
\* resumption and its return, no handler of another request takes a step
\* (a worker thread may finish); a request whose format function is
\* running does not hold the event loop, which is then free or with another
\* request; and no step changes the provider's datasets.
C10_OnlyAwaitYields ==
    [][ /\ datasets' = datasets
        /\ Cardinality({t \in Tasks : InHandler(task[t].pc)}) <= 1
        /\ \A t \in Tasks :
              /\ InHandler(task[t].pc) =>
                    /\ running = t
                    /\ \A u \in Tasks \ {t} :
                          \/ task'[u] = task[u]
                          \/ /\ task[u].pc = "formatting"
                             /\ task'[u].pc = "formatted"
              /\ task[t].pc \in {"formatting", "formatted"} => running # t
        /\ (\E t \in Tasks : task[t].pc = "formatting" /\ running = 0) =>
              \A u \in Tasks :
                  (task[u].pc = "idle" /\ \A w \in Tasks : w < u => task[w].pc # "idle")
                      => \E a \in Arrivals : ENABLED Receive(u, a[1], a[2]) ]_vars

\* One request's format function is running while another request is in
\* the middle of its selection.
C10_Witness ==
    \E t \in Tasks, u \in Tasks :
        /\ task[t].pc = "formatting"
        /\ task[u].pc = "t"
        /\ running = u

====
